---- MODULE Spec2Model ----
(***************************************************************************)
(* The Python layer of SystemML: the script façade of mlcontext.py (dml,   *)
(* pydml, Script, MLContext, MLResults) and the estimator façades of       *)
(* mllearn/estimators.py.  One action is one call a Python caller makes;   *)
(* `last` records that call and how it ended, `calls` the requests it sent *)
(* to the JVM, in order.                                                   *)
(***************************************************************************)
EXTENDS Integers, Sequences, FiniteSets, TLC

VARIABLES
    script,      \* the caller's Script object (cls = "none": not built yet)
    ml,          \* the caller's MLContext object
    results,     \* the caller's MLResults object
    sqlContext,  \* the class attribute MLResults.sqlContext
    est,         \* the caller's estimator object
    jvmObjs,     \* number of JVM scripts, estimators and models created so far
                 \* (their ids are 1..jvmObjs)
    last,        \* the last call: op, arguments, outcome, returned value
    calls        \* the requests the last call sent to the JVM, in order

vars == <<script, ml, results, sqlContext, est, jvmObjs, last, calls>>

----------------------------------------------------------------------------
(* Bounds of the model *)

\* longest output list of a Script
MaxOut == 2
\* most names passed to one MLResults.get / getNumPyArray / getDataFrame call
MaxGet == 3
\* JVM scripts, estimators and models that may be created in one behaviour
MaxJObj == 3
\* most rows and most columns of an array or table passed to fit or predict
MaxRows == 2
MaxCols == 2

----------------------------------------------------------------------------
(* Python and JVM values.  Every value has the same four fields so that any *)
(* two of them can be compared: its type, a string payload, and a number   *)
(* n/d (an object id is n with d = 1).                                     *)

V(type, s, n, d) == [type |-> type, s |-> s, n |-> n, d |-> d]

PyStr(s) == V("str", s, 0, 1)
PyInt(n) == V("int", "", n, 1)
PyFloat(n, d) == V("float", "", n, d)
PyNone == V("NoneType", "", 0, 1)
PyMatrix(id) == V("Matrix", "", id, 1)
JObj(cls, id) == V("JavaObject", cls, id, 1)

\* a request to the JVM: method f on object `on` (0: a constructor or a
\* static method), its arguments, and the id of the object it returned (0: none)
Call(f, on, args, ret) == [f |-> f, on |-> on, args |-> args, ret |-> ret]

\* how a call ended: "return" or the exception's class, its message, and the
\* value returned (kind "list": a Python list of items; otherwise one item
\* or none)
Return(kind, items) == [outcome |-> "return", msg |-> "", kind |-> kind, items |-> items]
Raise(exc, msg) == [outcome |-> exc, msg |-> msg, kind |-> "none", items |-> <<>>]

Range(f) == {f[x] : x \in DOMAIN f}

\* the sequences over S of length lo..hi
SeqsOf(S, lo, hi) == UNION {[1..n -> S] : n \in lo..hi}

\* the orders in which the elements of the finite set S can be enumerated
Orders(S) == {o \in [1..Cardinality(S) -> S] : Range(o) = S}

----------------------------------------------------------------------------
(* The caller's world *)

SparkContexts == {"sc1", "sc2"}

\* names of script variables
Names == {"X", "y"}

\* values a caller binds to a script input
InputValues == {PyInt(1), PyMatrix(1)}

\* the strings a caller passes as script text
ScriptStrings == {"a.dml", "b.dml", "a.pydml", "b.pydml", "notes.txt", "x = 1"}

\* the paths that exist on the local file system
ExistingPaths == {"a.dml", "a.pydml", "notes.txt"}

\* what a caller may pass where a string is expected
ScriptArgs == {PyStr(s) : s \in ScriptStrings} \cup {PyInt(5), PyNone}

ScriptTypes == {"dml", "pydml", "r", "DML"}

NoScript == [cls |-> "none", scriptString |-> PyNone, scriptType |-> "",
             input |-> <<>>, output |-> <<>>]
NoML == [cls |-> "none", sc |-> ""]
NoResults == [cls |-> "none", sc |-> "", jres |-> 0]
NoEst == [cls |-> "none", estimator |-> 0, model |-> 0,
          featuresCol |-> "features", labelCol |-> "label",
          transferUsingDF |-> FALSE, setOutputRawPredictionsToFalse |-> FALSE]

Init ==
    /\ script = NoScript
    /\ ml = NoML
    /\ results = NoResults
    /\ sqlContext = "unset"
    /\ est = NoEst
    /\ jvmObjs = 0
    /\ last = [op |-> "init", res |-> Return("none", <<>>)]
    /\ calls = <<>>

----------------------------------------------------------------------------
(* mlcontext.py: Script, dml, pydml *)

\* isinstance(x, str)
IsStr(x) == x.type = "str"

\* "%s" % type(x)
TypeName(x) == "<type '" \o x.type \o "'>"

\* Script.__init__
NewScriptObject(scriptString, scriptType) ==
    [cls |-> "Script", scriptString |-> scriptString, scriptType |-> scriptType,
     input |-> <<>>, output |-> <<>>]

\* Script(scriptString, scriptType): the constructor called directly
NewScript(s, t) ==
    /\ script' = NewScriptObject(s, t)
    /\ last' = [op |-> "Script", s |-> s, t |-> t, res |-> Return("Script", <<>>)]
    /\ calls' = <<>>
    /\ UNCHANGED <<ml, results, sqlContext, est, jvmObjs>>

\* a variant that tags every script "dml"
ScriptFactoryAlwaysDml(s, t) ==
    IF ~IsStr(s)
    THEN [res |-> Raise("ValueError", "scriptString should be a string, got " \o TypeName(s)),
          made |-> FALSE, obj |-> NoScript]
    ELSE [res |-> Return("Script", <<>>), made |-> TRUE, obj |-> NewScriptObject(s, "dml")]

\* what dml(s) / pydml(s) does for the dialect tag t
ScriptFactoryOutcome(s, t) ==
    IF ~IsStr(s)
    THEN [res |-> Raise("ValueError", "scriptString should be a string, got " \o TypeName(s)),
          made |-> FALSE, obj |-> NoScript]
    ELSE [res |-> Return("Script", <<>>), made |-> TRUE, obj |-> NewScriptObject(s, t)]

dml(s) ==
    LET o == ScriptFactoryOutcome(s, "dml") IN
    /\ script' = IF o.made THEN o.obj ELSE script
    /\ last' = [op |-> "dml", s |-> s, res |-> o.res]
    /\ calls' = <<>>
    /\ UNCHANGED <<ml, results, sqlContext, est, jvmObjs>>

pydml(s) ==
    LET o == ScriptFactoryOutcome(s, "pydml") IN
    /\ script' = IF o.made THEN o.obj ELSE script
    /\ last' = [op |-> "pydml", s |-> s, res |-> o.res]
    /\ calls' = <<>>
    /\ UNCHANGED <<ml, results, sqlContext, est, jvmObjs>>

\* the dict d with d[k] = v
DictSet(d, k, v) == [x \in (DOMAIN d) \cup {k} |-> IF x = k THEN v ELSE d[x]]

\* a variant that binds only the names d does not bind yet
DictUpdateKeepOld(d, kw) == [x \in (DOMAIN d) \cup (DOMAIN kw) |-> IF x \in DOMAIN d THEN d[x] ELSE kw[x]]

\* the dict d updated with every binding of the dict kw
DictUpdate(d, kw) == [x \in (DOMAIN d) \cup (DOMAIN kw) |-> IF x \in DOMAIN kw THEN kw[x] ELSE d[x]]

\* the dicts binding some of the names to input values
Dicts == UNION {[D -> InputValues] : D \in SUBSET Names}

\* the positional arguments a caller passes to Script.input: none, a name
\* alone, a (name, value) pair, a pair and one more
InputArgs ==
    {<<>>} \cup {<<PyStr(n)>> : n \in Names}
    \cup {<<PyStr(n), v>> : n \in Names, v \in InputValues}
    \cup {<<PyStr(n), v, v>> : n \in Names, v \in InputValues}

\* a variant that applies the keyword bindings before it looks at the
\* positional arguments
ScriptInputKwargsFirst(args, kwargs) ==
    /\ script.cls = "Script"
    /\ IF Len(args) # 0 /\ Len(args) # 2
       THEN /\ script' = [script EXCEPT !.input = DictUpdate(script.input, kwargs)]
            /\ last' = [op |-> "input", args |-> args, kwargs |-> kwargs,
                        res |-> Raise("ValueError", "Expected name, value pair.")]
       ELSE LET positional == IF Len(args) # 0
                              THEN DictSet(script.input, args[1].s, args[2])
                              ELSE script.input
            IN /\ script' = [script EXCEPT !.input = DictUpdate(positional, kwargs)]
               /\ last' = [op |-> "input", args |-> args, kwargs |-> kwargs,
                           res |-> Return("self", <<>>)]
    /\ calls' = <<>>
    /\ UNCHANGED <<ml, results, sqlContext, est, jvmObjs>>

\* Script.input(*args, **kwargs)
ScriptInput(args, kwargs) ==
    /\ script.cls = "Script"
    /\ IF Len(args) # 0 /\ Len(args) # 2
       THEN /\ script' = script
            /\ last' = [op |-> "input", args |-> args, kwargs |-> kwargs,
                        res |-> Raise("ValueError", "Expected name, value pair.")]
       ELSE LET positional == IF Len(args) # 0
                              THEN DictSet(script.input, args[1].s, args[2])
                              ELSE script.input
            IN /\ script' = [script EXCEPT !.input = DictUpdate(positional, kwargs)]
               /\ last' = [op |-> "input", args |-> args, kwargs |-> kwargs,
                           res |-> Return("self", <<>>)]
    /\ calls' = <<>>
    /\ UNCHANGED <<ml, results, sqlContext, est, jvmObjs>>

\* Script.out(*names)
ScriptOut(names) ==
    /\ script.cls = "Script"
    /\ Len(script.output) + Len(names) <= MaxOut
    /\ script' = [script EXCEPT !.output = script.output \o names]
    /\ last' = [op |-> "out", names |-> names, res |-> Return("self", <<>>)]
    /\ calls' = <<>>
    /\ UNCHANGED <<ml, results, sqlContext, est, jvmObjs>>

----------------------------------------------------------------------------
(* mlcontext.py: MLContext *)

SparkContext(name) == V("SparkContext", name, 0, 1)
EmptyTuple == V("tuple", "", 0, 1)
EmptyDict == V("dict", "", 0, 1)

\* what a caller may pass to MLContext(sc)
ContextArgs ==
    {SparkContext(c) : c \in SparkContexts} \cup {PyNone, PyInt(5), PyStr("sc"), EmptyTuple, EmptyDict}

\* fmt % arg succeeds, for a format string fmt with k conversion specifiers
\* (k <= 1, none of them named): a tuple must hold k values (its length is
\* its n), a mapping is never "too many arguments", any other value is one
\* argument
PercentFormats(k, arg) ==
    IF arg.type = "tuple" THEN arg.n = k
    ELSE IF arg.type = "dict" THEN TRUE
    ELSE k = 1

\* the outcome of `raise ValueError(fmt % arg)`
RaiseValueErrorFormatted(k, msg, arg) ==
    IF PercentFormats(k, arg)
    THEN Raise("ValueError", msg)
    ELSE Raise("TypeError", "not all arguments converted during string formatting")

\* MLContext.__init__(sc)
NewMLContext(sc) ==
    /\ IF sc.type # "SparkContext"
       THEN /\ last' = [op |-> "MLContext", sc |-> sc,
                        res |-> RaiseValueErrorFormatted(0, "Expected sc to be a SparkContext, got ", sc)]
            /\ calls' = <<>>
            /\ ml' = ml
       ELSE /\ ml' = [cls |-> "MLContext", sc |-> sc.s]
            /\ calls' = <<Call("MLContext", 0, <<PyStr(sc.s)>>, 0)>>
            /\ last' = [op |-> "MLContext", sc |-> sc, res |-> Return("MLContext", <<>>)]
    /\ UNCHANGED <<script, results, sqlContext, est, jvmObjs>>

\* every string that some script string may end with after a prefix
Stems == ScriptStrings \cup {"a", "b", "notes", ""}

\* s.endswith(suffix)
EndsWith(s, suffix) == \E p \in Stems : p \o suffix = s

\* a variant that takes every path to exist
PathExistsAlways(s) == TRUE

\* os.path.exists(s)
PathExists(s) == s \in ExistingPaths

\* _py2java(sc, obj): a Matrix wrapper is replaced by the JVM matrix it holds,
\* any other value is converted to its JVM counterpart
Py2Java(v) ==
    IF v.type = "Matrix" THEN JObj("Matrix", v.n)
    ELSE V("java:" \o v.type, v.s, v.n, v.d)

\* a variant that asks whether the path exists before it looks at the suffix
FromDialectExistingFirst(text, suffix, fromFile, inline) ==
    IF ~IsStr(text)
    THEN [err |-> TRUE, factory |-> "",
          res |-> Raise("AttributeError", "object has no attribute 'endswith'")]
    ELSE IF PathExists(text.s)
    THEN [err |-> FALSE, factory |-> fromFile, res |-> Return("none", <<>>)]
    ELSE IF EndsWith(text.s, suffix)
    THEN [err |-> TRUE, factory |-> "",
          res |-> Raise("ValueError", "path: " \o text.s \o " does not exist")]
    ELSE [err |-> FALSE, factory |-> inline, res |-> Return("none", <<>>)]

\* one dialect's branch of execute: a text with the dialect's suffix is a
\* path, loaded by the request fromFile when it exists and an error when it
\* does not; any other text is submitted by the request inline
FromDialect(text, suffix, fromFile, inline) ==
    IF ~IsStr(text)
    THEN [err |-> TRUE, factory |-> "",
          res |-> Raise("AttributeError", "object has no attribute 'endswith'")]
    ELSE IF EndsWith(text.s, suffix)
    THEN IF PathExists(text.s)
         THEN [err |-> FALSE, factory |-> fromFile, res |-> Return("none", <<>>)]
         ELSE [err |-> TRUE, factory |-> "",
               res |-> Raise("ValueError", "path: " \o text.s \o " does not exist")]
    ELSE [err |-> FALSE, factory |-> inline, res |-> Return("none", <<>>)]

\* a dialect-blind variant: any tag but "pydml" is taken for "dml"
ResolveScriptDefaultDml(s) ==
    IF s.scriptType = "pydml"
    THEN FromDialect(s.scriptString, ".pydml", "pydmlFromFile", "pydml")
    ELSE FromDialect(s.scriptString, ".dml", "dmlFromFile", "dml")

\* the if/elif over script.scriptType in execute: the ScriptFactory request
\* the script's text and dialect lead to ("none": no branch binds
\* script_java), or the error raised
ResolveScript(s) ==
    IF s.scriptType = "dml"
    THEN FromDialect(s.scriptString, ".dml", "dmlFromFile", "dml")
    ELSE IF s.scriptType = "pydml"
    THEN FromDialect(s.scriptString, ".pydml", "pydmlFromFile", "pydml")
    ELSE [err |-> FALSE, factory |-> "none", res |-> Return("none", <<>>)]

\* a variant that declares the outputs before it binds the inputs
ForwardBindingsOutFirst(s, sj, order) ==
    [i \in 1..Len(s.output) |-> Call("out", sj, <<PyStr(s.output[i])>>, 0)]
    \o [i \in 1..Len(order) |-> Call("input", sj, <<PyStr(order[i]), Py2Java(s.input[order[i]])>>, 0)]

\* lines 289-292 of execute: the input and out requests sent to script_java
\* (the object with id sj), the inputs in the order `order` of the dict's keys
ForwardBindings(s, sj, order) ==
    [i \in 1..Len(order) |-> Call("input", sj, <<PyStr(order[i]), Py2Java(s.input[order[i]])>>, 0)]
    \o [i \in 1..Len(s.output) |-> Call("out", sj, <<PyStr(s.output[i])>>, 0)]

\* a variant that builds a fresh table context for every MLResults
SqlContextAfterResultsFresh(sc) == sc

\* MLResults.__init__: the class attribute is set only when it is missing
\* (AttributeError) or None
SqlContextAfterResults(sc) == IF sqlContext = "unset" THEN sc ELSE sqlContext

\* MLContext.execute(arg): arg is the caller's Script (a value of type
\* "Script" stands for it) or some other value; the results handle the engine
\* returns carries the id of the script it ran; the dict's keys are iterated in `order`;
\* remoteOk: the engine runs the script without error
execute(arg, order, remoteOk) ==
    /\ ml.cls = "MLContext"
    /\ jvmObjs + 1 <= MaxJObj
    /\ order \in Orders(DOMAIN script.input)
    /\ LET sj == jvmObjs + 1
           exec == Call("execute", 0, <<PyStr(ml.sc), JObj("Script", sj)>>, 0)
           r == ResolveScript(script)
           create == Call(r.factory, 0, <<script.scriptString>>, sj)
           fin(res, cs, nobjs, rs, sq) ==
               /\ last' = [op |-> "execute", arg |-> arg, remoteOk |-> remoteOk, res |-> res]
               /\ calls' = cs
               /\ jvmObjs' = nobjs
               /\ results' = rs
               /\ sqlContext' = sq
       IN IF arg.type # "Script" \/ script.cls # "Script"
          THEN fin(Raise("ValueError", "Expected script to be an instance of Script"),
                   <<>>, jvmObjs, results, sqlContext)
          ELSE IF r.err
          THEN fin(r.res, <<>>, jvmObjs, results, sqlContext)
          ELSE IF r.factory = "none"
          THEN fin(Raise("UnboundLocalError", "local variable 'script_java' referenced before assignment"),
                   <<>>, jvmObjs, results, sqlContext)
          ELSE IF ~remoteOk
          THEN fin(Raise("Py4JJavaError", "execute"),
                   <<create>> \o ForwardBindings(script, sj, order)
                       \o <<exec>>,
                   sj, results, sqlContext)
          ELSE fin(Return("MLResults", <<>>),
                   <<create>> \o ForwardBindings(script, sj, order)
                       \o <<exec>>
                       \o (IF sqlContext = "unset"
                           THEN <<Call("SQLContext", 0, <<PyStr(ml.sc)>>, 0)>> ELSE <<>>),
                   sj,
                   [cls |-> "MLResults", sc |-> ml.sc, jres |-> sj],
                   SqlContextAfterResults(ml.sc))
    /\ UNCHANGED <<script, ml, est>>

\* what a caller may pass to execute
ExecuteArgs == {V("Script", "", 0, 1), PyStr("x = 1"), PyNone}

----------------------------------------------------------------------------
(* mlcontext.py: MLResults *)

\* a value handed back by a retrieval: the Python type it was converted to,
\* the class of the JVM value it came from, the output variable, the results
\* handle it was read from and the context it is bound to
Item(conv, cls, var, jres, ctx) ==
    [conv |-> conv, cls |-> cls, var |-> var, jres |-> jres, ctx |-> ctx]

\* the class of the JVM value the engine holds for an output variable
EngineClass(var) == IF var = "X" THEN "Matrix" ELSE "Double"

\* _java2py(sc, obj): a JVM Matrix is wrapped into a Matrix, any other value
\* becomes its Python counterpart
Java2Py(sc, cls, var, jres) ==
    IF cls = "Matrix" THEN Item("Matrix", cls, var, jres, sc)
    ELSE Item("py:" \o cls, cls, var, jres, "")

\* convertToNumpyArr(sc, mb)
convertToNumpyArr(sc, var, jres) == Item("ndarray", "MatrixBlock", var, jres, "")

\* the retrieval modes: the method, its JVM lookup, the requests that follow
\* the lookup, and the conversion of what they return
Modes == {"getNumPyArray", "getDataFrame", "get"}

Lookup(mode) ==
    IF mode = "getNumPyArray" THEN "getMatrix"
    ELSE IF mode = "getDataFrame" THEN "getDataFrame"
    ELSE "get"

LookupCalls(mode, out) ==
    <<Call(Lookup(mode), results.jres, <<PyStr(out)>>, 0)>>
    \o (IF mode = "getNumPyArray"
        THEN <<Call("asBinaryBlockMatrix", 0, <<PyStr(out)>>, 0),
               Call("getMatrixBlock", 0, <<PyStr(out)>>, 0)>>
        ELSE <<>>)

Converted(mode, out) ==
    IF mode = "getNumPyArray" THEN convertToNumpyArr(results.sc, out, results.jres)
    ELSE IF mode = "getDataFrame" THEN Item("DataFrame", "DataFrame", out, results.jres, sqlContext)
    ELSE Java2Py(results.sc, EngineClass(out), out, results.jres)

RECURSIVE Flat(_)
Flat(ss) == IF ss = <<>> THEN <<>> ELSE Head(ss) \o Flat(Tail(ss))

\* the list comprehension `[convert(lookup(out)) for out in outputs]`
Outs(mode, outputs) == [i \in 1..Len(outputs) |-> Converted(mode, outputs[i])]

\* a variant that never unwraps
UnwrapNever(outs) == Return("list", outs)

\* `if len(outs) == 1: return outs[0]` / `return outs`
Unwrap(outs) == IF Len(outs) = 1 THEN Return("value", <<outs[1]>>) ELSE Return("list", outs)

\* MLResults.getNumPyArray / getDataFrame / get (*outputs); failAt = k > 0: the
\* engine rejects the k-th lookup
Retrieve(mode, outputs, failAt) ==
    /\ results.cls = "MLResults"
    /\ failAt \in 0..Len(outputs)
    /\ LET n == IF failAt = 0 THEN Len(outputs) ELSE failAt
           tried == [i \in 1..n |-> LookupCalls(mode, outputs[i])]
       IN /\ calls' = IF failAt = 0 THEN Flat(tried)
                      ELSE Flat(SubSeq(tried, 1, n - 1)) \o <<tried[n][1]>>
          /\ last' = [op |-> mode, outputs |-> outputs, failAt |-> failAt,
                      res |-> IF failAt = 0 THEN Unwrap(Outs(mode, outputs))
                              ELSE Raise("Py4JJavaError", Lookup(mode))]
    /\ UNCHANGED <<script, ml, results, sqlContext, est, jvmObjs>>

----------------------------------------------------------------------------
(* mllearn/estimators.py: the constructors *)

\* values a caller passes as the regularization constant C
CValues == {PyInt(-1), PyInt(0), PyInt(1), PyInt(2), PyFloat(1, 2)}

Penalties == {"l2", "l1"}
Solvers == {"newton-cg", "direct-solve", "lbfgs"}

\* a variant that lets zero through
Negative(c) == c.n < 0

\* C <= 0
NonPositive(c) == c.n <= 0

\* a variant that accepts every penalty
AnyPenalty(penalty) == TRUE

\* LogisticRegression: penalty != 'l2' raises
PenaltySupported(penalty) == penalty = "l2"

\* LogisticRegression: solver != 'newton-cg' raises
LogisticSolverSupported(solver) == solver = "newton-cg"

\* LinearRegression: solver == 'newton-cg' or solver == 'direct-solve'
LinearSolverSupported(solver) == solver = "newton-cg" \/ solver = "direct-solve"

\* 1.0 / C
Reciprocal(c) == PyFloat(c.d, c.n)

\* int(b)
IntOfBool(b) == PyInt(IF b THEN 1 ELSE 0)

\* the estimator object a constructor leaves behind
EstimatorObject(cls, id, transferUsingDF, rawToFalse) ==
    [cls |-> cls, estimator |-> id, model |-> 0,
     featuresCol |-> "features", labelCol |-> "label",
     transferUsingDF |-> transferUsingDF, setOutputRawPredictionsToFalse |-> rawToFalse]

\* the end of a constructor call: the caller gets the object only when the
\* constructor returns
Constructed(op, args, res, cs, obj, nobjs) ==
    /\ last' = [op |-> op, ctor |-> args, res |-> res]
    /\ calls' = cs
    /\ est' = IF res.outcome = "return" THEN obj ELSE est
    /\ jvmObjs' = nobjs
    /\ UNCHANGED <<script, ml, results, sqlContext>>

\* the setters every constructor issues after the check of C
RegSetters(id, C, fit_intercept) ==
    <<Call("setRegParam", id, <<Reciprocal(C)>>, 0),
      Call("setTol", id, <<PyFloat(1, 1000000)>>, 0),
      Call("setIcpt", id, <<IntOfBool(fit_intercept)>>, 0)>>

\* LogisticRegression.__init__
LogisticRegression(penalty, fit_intercept, C, solver, transferUsingDF) ==
    /\ jvmObjs + 1 <= MaxJObj
    /\ LET id == jvmObjs + 1
           args == [penalty |-> penalty, fit_intercept |-> fit_intercept, C |-> C,
                    solver |-> solver, transferUsingDF |-> transferUsingDF]
           obj == EstimatorObject("LogisticRegression", id, transferUsingDF, TRUE)
           c0 == <<Call("LogisticRegression", 0, <<PyStr("logReg")>>, id),
                   Call("setMaxOuterIter", id, <<PyInt(100)>>, 0),
                   Call("setMaxInnerIter", id, <<PyInt(0)>>, 0)>>
           c1 == c0 \o RegSetters(id, C, fit_intercept)
       IN IF NonPositive(C)
          THEN Constructed("LogisticRegression", args, Raise("Exception", "C has to be positive"), c0, obj, id)
          ELSE IF ~PenaltySupported(penalty)
          THEN Constructed("LogisticRegression", args, Raise("Exception", "Only l2 penalty is supported"), c1, obj, id)
          ELSE IF ~LogisticSolverSupported(solver)
          THEN Constructed("LogisticRegression", args, Raise("Exception", "Only newton-cg solver supported"), c1, obj, id)
          ELSE Constructed("LogisticRegression", args, Return("LogisticRegression", <<>>), c1, obj, id)

\* LinearRegression.__init__
LinearRegression(fit_intercept, C, solver, transferUsingDF) ==
    /\ jvmObjs + 1 <= MaxJObj
    /\ LET id == jvmObjs + 1
           args == [penalty |-> "l2", fit_intercept |-> fit_intercept, C |-> C,
                    solver |-> solver, transferUsingDF |-> transferUsingDF]
           obj == EstimatorObject("LinearRegression", id, transferUsingDF, FALSE)
           c0 == <<Call("LinearRegression", 0, <<PyStr("lr"), PyStr(solver)>>, id),
                   Call("setMaxIter", id, <<PyInt(100)>>, 0)>>
       IN IF ~LinearSolverSupported(solver)
          THEN Constructed("LinearRegression", args, Raise("Exception", "Only newton-cg solver supported"), <<>>, obj, jvmObjs)
          ELSE IF NonPositive(C)
          THEN Constructed("LinearRegression", args, Raise("Exception", "C has to be positive"), c0, obj, id)
          ELSE Constructed("LinearRegression", args, Return("LinearRegression", <<>>),
                           c0 \o RegSetters(id, C, fit_intercept), obj, id)

\* SVM.__init__
SVM(fit_intercept, C, is_multi_class, transferUsingDF) ==
    /\ jvmObjs + 1 <= MaxJObj
    /\ LET id == jvmObjs + 1
           args == [penalty |-> "l2", fit_intercept |-> fit_intercept, C |-> C,
                    solver |-> "newton-cg", transferUsingDF |-> transferUsingDF]
           obj == EstimatorObject("SVM", id, transferUsingDF, FALSE)
           c0 == <<Call("SVM", 0, <<PyStr("svm"), IntOfBool(is_multi_class)>>, id),
                   Call("setMaxIter", id, <<PyInt(100)>>, 0)>>
       IN IF NonPositive(C)
          THEN Constructed("SVM", args, Raise("Exception", "C has to be positive"), c0, obj, id)
          ELSE Constructed("SVM", args, Return("SVM", <<>>),
                           c0 \o RegSetters(id, C, fit_intercept), obj, id)

----------------------------------------------------------------------------
(* mllearn/estimators.py: fit, predict, transform *)

\* an array or table a caller passes: its Python type, its shape and, for a
\* Spark table, its column names
Data(type, rows, cols, columns) == [type |-> type, rows |-> rows, cols |-> cols, columns |-> columns]

NoData == Data("NoneType", 0, 0, {})

\* column names of Spark tables
ColNames == {"features", "label", "f2"}

\* converters.SUPPORTED_TYPES: NumPy ndarray, Pandas DataFrame, scipy sparse matrix
SupportedTypes == {"ndarray", "pandas", "spmatrix"}

\* isinstance(X, SUPPORTED_TYPES)
IsSupported(X) == X.type \in SupportedTypes

\* hasattr(X, '_jdf')
HasJdf(X) == X.type = "sparkdf"

\* converters.getNumCols
getNumCols(y) == y.cols

\* a table or array as the argument of a request
AsArg(X) == V(X.type, "", X.rows, X.cols)

\* what predict hands back: a host array, a host table or a Spark table, its
\* shape, the column it was sorted by, and the JVM model that produced it
Prediction(type, shape, sortedBy, model) ==
    [type |-> type, shape |-> shape, sortedBy |-> sortedBy, model |-> model]

\* converters.convertToNumPyArr applied to the matrix block a model returned
convertToNumPyArr(model) == Prediction("ndarray", "flat", "", model)

\* setFeaturesCol(colName)
setFeaturesCol(colName) ==
    /\ est.cls # "none"
    /\ est' = [est EXCEPT !.featuresCol = colName]
    /\ last' = [op |-> "setFeaturesCol", colName |-> colName, res |-> Return("none", <<>>)]
    /\ calls' = <<>>
    /\ UNCHANGED <<script, ml, results, sqlContext, jvmObjs>>

\* setLabelCol(colName)
setLabelCol(colName) ==
    /\ est.cls # "none"
    /\ est' = [est EXCEPT !.labelCol = colName]
    /\ last' = [op |-> "setLabelCol", colName |-> colName, res |-> Return("none", <<>>)]
    /\ calls' = <<>>
    /\ UNCHANGED <<script, ml, results, sqlContext, jvmObjs>>

\* a variant that looks for the default column names
IsShapedTableDefaults(e, X) == HasJdf(X) /\ "features" \in X.columns /\ "label" \in X.columns

\* _fit's test of its argument
IsShapedTable(e, X) == HasJdf(X) /\ e.featuresCol \in X.columns /\ e.labelCol \in X.columns

\* the requests fit sends before the JVM fit, on the path it takes
FitPreparation(e, X, y) ==
    IF y.type = "NoneType" THEN <<>>
    ELSE IF e.transferUsingDF THEN <<Call("VectorAssembler", 0, <<PyStr(e.featuresCol)>>, 0)>>
    ELSE <<Call("convertToMatrixBlock", 0, <<AsArg(X)>>, 0),
           Call("convertToMatrixBlock", 0, <<AsArg(y)>>, 0)>>

\* the check fit makes before it delegates: "" when it passes, else the message
FitRejects(e, X, y) ==
    IF y.type = "NoneType"
    THEN IF IsShapedTable(e, X) THEN ""
         ELSE "Incorrect usage: Expected dataframe as input with features/label as columns"
    ELSE IF IsSupported(X) /\ IsSupported(y)
    THEN IF e.transferUsingDF
         THEN IF getNumCols(y) # 1 THEN "y should be a column vector"
              ELSE IF X.rows # y.rows THEN "Number of rows of X and y should match"
              ELSE ""
         ELSE IF getNumCols(y) # 1 THEN "Expected y to be a column vector" ELSE ""
    ELSE "Unsupported input type"

\* a variant that keeps the model of the first fit
ModelAfterFitKeepsFirst(e, y, m) == IF e.model = 0 THEN m ELSE e.model

\* a variant that stores the model on the table path only
ModelAfterFitTableOnly(e, y, m) == IF y.type = "NoneType" THEN m ELSE e.model

\* `self.model = self.estimator.fit(...)`: the model the estimator e holds
\* after the JVM fit returned the object m
ModelAfterFit(e, y, m) == m

\* fit(X, y): remoteOk says whether the JVM estimator's fit succeeds
fit(X, y, remoteOk) ==
    /\ est.cls # "none"
    /\ jvmObjs + 1 <= MaxJObj
    /\ LET m == jvmObjs + 1
           rejected == FitRejects(est, X, y)
           prep == FitPreparation(est, X, y)
           request(ret) == Call("fit", est.estimator, <<AsArg(X), AsArg(y)>>, ret)
           raw == IF y.type # "NoneType" /\ est.setOutputRawPredictionsToFalse
                  THEN <<Call("setOutputRawPredictions", m, <<IntOfBool(FALSE)>>, 0)>>
                  ELSE <<>>
           fin(res, cs, model, nobjs) ==
               /\ last' = [op |-> "fit", X |-> X, y |-> y, remoteOk |-> remoteOk, res |-> res]
               /\ calls' = cs
               /\ est' = [est EXCEPT !.model = model]
               /\ jvmObjs' = nobjs
       IN IF rejected # ""
          THEN fin(Raise("Exception", rejected), <<>>, est.model, jvmObjs)
          ELSE IF ~remoteOk
          THEN fin(Raise("Py4JJavaError", "fit"), prep \o <<request(0)>>, est.model, jvmObjs)
          ELSE fin(Return("self", <<>>), prep \o <<request(m)>> \o raw, ModelAfterFit(est, y, m), m)
    /\ UNCHANGED <<script, ml, results, sqlContext>>

\* predict(X) on the estimator e: how it ends and the requests it sends
PredictOutcome(e, X, remoteOk) ==
    LET noModel == Raise("AttributeError", "object has no attribute 'model'")
        failed == Raise("Py4JJavaError", "transform")
        request == Call("transform", e.model, <<AsArg(X)>>, 0)
        assembler == Call("VectorAssembler", 0, <<PyStr(e.featuresCol)>>, 0)
    IN IF IsSupported(X)
       THEN IF e.transferUsingDF
            THEN IF e.model = 0 THEN [res |-> noModel, cs |-> <<assembler>>]
                 ELSE IF ~remoteOk THEN [res |-> failed, cs |-> <<assembler, request>>]
                 ELSE [res |-> Return("value",
                                  <<IF X.type = "ndarray"
                                    THEN Prediction("ndarray", "flat", "__INDEX", e.model)
                                    ELSE Prediction("pandas", "table", "__INDEX", e.model)>>),
                       cs |-> <<assembler, request, Call("sort", 0, <<PyStr("__INDEX")>>, 0)>>]
            ELSE IF e.model = 0 THEN [res |-> noModel, cs |-> <<>>]
                 ELSE LET mb == Call("convertToMatrixBlock", 0, <<AsArg(X)>>, 0)
                      IN IF ~remoteOk THEN [res |-> failed, cs |-> <<mb, request>>]
                         ELSE [res |-> Return("value", <<convertToNumPyArr(e.model)>>),
                               cs |-> <<mb, request>>]
       ELSE IF HasJdf(X)
       THEN LET pre == IF e.featuresCol \in X.columns THEN <<>> ELSE <<assembler>>
            IN IF e.model = 0 THEN [res |-> noModel, cs |-> pre]
               ELSE IF ~remoteOk THEN [res |-> failed, cs |-> pre \o <<request>>]
               ELSE [res |-> Return("value", <<Prediction("sparkdf", "table", "__INDEX", e.model)>>),
                     cs |-> pre \o <<request, Call("sort", 0, <<PyStr("__INDEX")>>, 0)>>]
       ELSE [res |-> Raise("Exception", "Unsupported input type"), cs |-> <<>>]

\* a variant that sends the JVM transform once more when it failed
predictRetrying(X, remoteOk) ==
    /\ est.cls # "none"
    /\ LET o == PredictOutcome(est, X, remoteOk)
       IN /\ last' = [op |-> "predict", X |-> X, remoteOk |-> remoteOk, res |-> o.res]
          /\ calls' = IF o.res.outcome = "Py4JJavaError" THEN o.cs \o <<o.cs[Len(o.cs)]>> ELSE o.cs
    /\ UNCHANGED <<script, ml, results, sqlContext, est, jvmObjs>>

\* predict(X)
predict(X, remoteOk) ==
    /\ est.cls # "none"
    /\ LET o == PredictOutcome(est, X, remoteOk)
       IN /\ last' = [op |-> "predict", X |-> X, remoteOk |-> remoteOk, res |-> o.res]
          /\ calls' = o.cs
    /\ UNCHANGED <<script, ml, results, sqlContext, est, jvmObjs>>

\* a variant that is the do-nothing stub of an abstract base class
transformStub(X, remoteOk) ==
    /\ est.cls # "none"
    /\ last' = [op |-> "transform", X |-> X, remoteOk |-> remoteOk, res |-> Return("none", <<>>)]
    /\ calls' = <<>>
    /\ UNCHANGED <<script, ml, results, sqlContext, est, jvmObjs>>

\* transform(X): `return self.predict(X)`
transform(X, remoteOk) ==
    /\ est.cls # "none"
    /\ LET o == PredictOutcome(est, X, remoteOk)
       IN /\ last' = [op |-> "transform", X |-> X, remoteOk |-> remoteOk, res |-> o.res]
          /\ calls' = o.cs
    /\ UNCHANGED <<script, ml, results, sqlContext, est, jvmObjs>>

\* the base class of the estimator e: BaseSystemMLRegressor for
\* LinearRegression, BaseSystemMLClassifier for the others
IsRegressor(e) == e.cls = "LinearRegression"

\* score(X, y): `return accuracy_score(y, self.predict(X))` for a classifier,
\* `return r2_score(y, self.predict(X), ...)` for a regressor; the prediction
\* is computed first, and the metric, a host computation, accepts it and y or
\* rejects them (metricOk)
score(X, y, remoteOk, metricOk) ==
    /\ est.cls # "none"
    /\ LET o == PredictOutcome(est, X, remoteOk)
           metric == IF IsRegressor(est) THEN "r2_score" ELSE "accuracy_score"
       IN /\ last' = [op |-> "score", X |-> X, y |-> y, remoteOk |-> remoteOk,
                      metricOk |-> metricOk,
                      res |-> IF o.res.outcome # "return" THEN o.res
                              ELSE IF metricOk THEN Return(metric, <<>>)
                              ELSE Raise("ValueError", metric)]
          /\ calls' = o.cs
    /\ UNCHANGED <<script, ml, results, sqlContext, est, jvmObjs>>

\* the arrays and tables a caller passes as X
XValues ==
    {Data("ndarray", r, MaxCols, {}) : r \in 1..MaxRows}
    \cup {Data("pandas", MaxRows, MaxCols, {}), Data("spmatrix", MaxRows, MaxCols, {}),
          Data("list", MaxRows, MaxCols, {})}
    \cup {Data("sparkdf", MaxRows, MaxCols, cols) : cols \in SUBSET ColNames}

\* what a caller passes as y
YValues ==
    {NoData, Data("list", MaxRows, 1, {}), Data("pandas", MaxRows, 1, {})}
    \cup {Data("ndarray", r, c, {}) : r \in 1..MaxRows, c \in 1..MaxCols}

----------------------------------------------------------------------------
(* Scenarios.  Each draws the calls of one part of the layer from sets small *)
(* enough to enumerate; Next is every call with every argument.             *)

\* what the builder scenario passes as script text
BuilderArgs == {PyStr("a.dml"), PyStr("x = 1"), PyInt(5), PyNone}

\* building scripts: dml, pydml, input, out
NextScript ==
    \/ \E s \in BuilderArgs : dml(s)
    \/ \E s \in BuilderArgs : pydml(s)
    \/ \E args \in InputArgs, kwargs \in Dicts : ScriptInput(args, kwargs)
    \/ \E names \in SeqsOf(Names, 0, MaxOut) : ScriptOut(names)

\* resolving and submitting scripts: every script text in every dialect, with
\* at most one input and one output bound
NextResolve ==
    \/ \E s \in ScriptArgs, t \in ScriptTypes : NewScript(s, t)
    \/ \E s \in ScriptArgs : dml(s)
    \/ \E s \in ScriptArgs : pydml(s)
    \/ script.input = <<>> /\ ScriptInput(<<PyStr("X"), PyMatrix(1)>>, <<>>)
    \/ script.output = <<>> /\ ScriptOut(<<"y">>)
    \/ \E sc \in ContextArgs \ {SparkContext("sc2")} : NewMLContext(sc)
    \/ \E arg \in ExecuteArgs, order \in SeqsOf(Names, 0, 1), remoteOk \in BOOLEAN :
           execute(arg, order, remoteOk)

\* reading results: one inline script, both contexts, every retrieval
NextResults ==
    \/ script.cls = "none" /\ dml(PyStr("x = 1"))
    \/ \E c \in SparkContexts : NewMLContext(SparkContext(c))
    \/ execute(V("Script", "", 0, 1), <<>>, TRUE)
    \/ \E mode \in Modes, outputs \in SeqsOf(Names, 0, MaxGet), failAt \in 0..MaxGet :
           Retrieve(mode, outputs, failAt)

\* constructing estimators with every hyperparameter
NextCtor ==
    \/ \E p \in Penalties, b \in BOOLEAN, c \in CValues, s \in Solvers, df \in BOOLEAN :
           LogisticRegression(p, b, c, s, df)
    \/ \E b \in BOOLEAN, c \in CValues, s \in Solvers, df \in BOOLEAN :
           LinearRegression(b, c, s, df)
    \/ \E b \in BOOLEAN, c \in CValues, m \in BOOLEAN, df \in BOOLEAN :
           SVM(b, c, m, df)

\* fitting and predicting with one estimator, built with valid hyperparameters
NextEst ==
    \/ est.cls = "none" /\ \E df \in BOOLEAN : LogisticRegression("l2", TRUE, PyInt(1), "newton-cg", df)
    \/ est.cls = "none" /\ \E df \in BOOLEAN : LinearRegression(TRUE, PyInt(1), "newton-cg", df)
    \/ \E c \in {"features", "f2"} : setFeaturesCol(c)
    \/ \E c \in {"label", "f2"} : setLabelCol(c)
    \/ \E X \in XValues, y \in YValues, remoteOk \in BOOLEAN : fit(X, y, remoteOk)
    \/ \E X \in XValues, remoteOk \in BOOLEAN : predict(X, remoteOk)
    \/ \E X \in XValues, remoteOk \in BOOLEAN : transform(X, remoteOk)

\* the arrays and tables of the lifecycle scenario
LifecycleX ==
    {Data("ndarray", MaxRows, MaxCols, {}), Data("list", MaxRows, MaxCols, {}),
     Data("sparkdf", MaxRows, MaxCols, {}), Data("sparkdf", MaxRows, MaxCols, {"features", "label"})}
LifecycleY == {NoData, Data("ndarray", MaxRows, 1, {}), Data("ndarray", MaxRows, MaxCols, {})}

\* the life of one estimator: built once, then fitted, asked to predict,
\* transform and score in any order
NextLifecycle ==
    \/ est.cls = "none" /\ \E df \in BOOLEAN : LogisticRegression("l2", TRUE, PyInt(1), "newton-cg", df)
    \/ est.cls = "none" /\ \E df \in BOOLEAN : LinearRegression(TRUE, PyInt(1), "direct-solve", df)
    \/ \E X \in LifecycleX, y \in LifecycleY, remoteOk \in BOOLEAN : fit(X, y, remoteOk)
    \/ \E X \in LifecycleX, remoteOk \in BOOLEAN : predict(X, remoteOk)
    \/ \E X \in LifecycleX, remoteOk \in BOOLEAN : transform(X, remoteOk)
    \/ \E X \in LifecycleX, y \in LifecycleY \ {NoData}, remoteOk \in BOOLEAN, metricOk \in BOOLEAN :
           score(X, y, remoteOk, metricOk)

\* requests that fail: one inline script with at most one input and one
\* output, executed, and one estimator, fitted and asked to predict, where
\* the engine may reject any execute, fit or transform
NextRemote ==
    \/ script.cls = "none" /\ dml(PyStr("x = 1"))
    \/ script.input = <<>> /\ ScriptInput(<<PyStr("X"), PyMatrix(1)>>, <<>>)
    \/ script.output = <<>> /\ ScriptOut(<<"y">>)
    \/ ml.cls = "none" /\ NewMLContext(SparkContext("sc1"))
    \/ \E order \in SeqsOf(Names, 0, 1), remoteOk \in BOOLEAN :
           execute(V("Script", "", 0, 1), order, remoteOk)
    \/ est.cls = "none" /\ \E df \in BOOLEAN : LogisticRegression("l2", TRUE, PyInt(1), "newton-cg", df)
    \/ \E X \in LifecycleX, y \in LifecycleY, remoteOk \in BOOLEAN : fit(X, y, remoteOk)
    \/ \E X \in LifecycleX, remoteOk \in BOOLEAN : predict(X, remoteOk)

\* forwarding bindings: one inline script with any inputs and outputs bound,
\* executed any number of times
NextForward ==
    \/ script.cls = "none" /\ dml(PyStr("x = 1"))
    \/ \E n \in Names, v \in InputValues : ScriptInput(<<PyStr(n), v>>, <<>>)
    \/ \E n \in Names : ScriptOut(<<n>>)
    \/ ml.cls = "none" /\ NewMLContext(SparkContext("sc1"))
    \/ \E order \in SeqsOf(Names, 0, Cardinality(Names)), remoteOk \in BOOLEAN :
           execute(V("Script", "", 0, 1), order, remoteOk)

Next ==
    \/ NextCtor
    \/ \E c \in ColNames : setFeaturesCol(c)
    \/ \E c \in ColNames : setLabelCol(c)
    \/ \E X \in XValues, y \in YValues, remoteOk \in BOOLEAN : fit(X, y, remoteOk)
    \/ \E X \in XValues, remoteOk \in BOOLEAN : predict(X, remoteOk)
    \/ \E X \in XValues, remoteOk \in BOOLEAN : transform(X, remoteOk)
    \/ \E X \in XValues, y \in YValues, remoteOk \in BOOLEAN, metricOk \in BOOLEAN :
           score(X, y, remoteOk, metricOk)
    \/ \E s \in ScriptArgs, t \in ScriptTypes : NewScript(s, t)
    \/ \E s \in ScriptArgs : dml(s)
    \/ \E s \in ScriptArgs : pydml(s)
    \/ \E args \in InputArgs, kwargs \in Dicts : ScriptInput(args, kwargs)
    \/ \E names \in SeqsOf(Names, 0, MaxOut) : ScriptOut(names)
    \/ \E sc \in ContextArgs : NewMLContext(sc)
    \/ \E arg \in ExecuteArgs, order \in SeqsOf(Names, 0, Cardinality(Names)), remoteOk \in BOOLEAN :
           execute(arg, order, remoteOk)
    \/ \E mode \in Modes, outputs \in SeqsOf(Names, 0, MaxGet), failAt \in 0..MaxGet :
           Retrieve(mode, outputs, failAt)

Spec == Init /\ [][Next]_vars
SpecScript == Init /\ [][NextScript]_vars
SpecResolve == Init /\ [][NextResolve]_vars
SpecResults == Init /\ [][NextResults]_vars
SpecCtor == Init /\ [][NextCtor]_vars
SpecEst == Init /\ [][NextEst]_vars
SpecForward == Init /\ [][NextForward]_vars
SpecLifecycle == Init /\ [][NextLifecycle]_vars
SpecRemote == Init /\ [][NextRemote]_vars
----------------------------------------------------------------------------
(* Properties *)

\* the requests named f among those the last call sent, in order
CallsOf(f) == SelectSeq(calls, LAMBDA c : c.f = f)

Returned == last.res.outcome = "return"

\* the Python type each retrieval converts an output variable to
ExpectedConv(mode, var) ==
    IF mode = "getNumPyArray" THEN "ndarray"
    ELSE IF mode = "getDataFrame" THEN "DataFrame"
    ELSE IF var = "X" THEN "Matrix" ELSE "py:Double"

\* C1: get, getNumPyArray and getDataFrame called with n >= 2 names return a
\* list of length n whose i-th element is the converted value of the i-th
\* requested name (order and duplicates kept), called with one name they
\* return the bare converted value, and they look each name up once, in order.
C1_RetrieveInOrderAndUnwrap ==
    (last.op \in {"get", "getNumPyArray", "getDataFrame"} /\ Returned) =>
        LET names == last.outputs
            n == Len(names)
            items == last.res.items
            lookups == CallsOf(IF last.op = "getNumPyArray" THEN "getMatrix" ELSE last.op)
            IsValueOf(item, var) ==
                /\ item.var = var
                /\ item.jres = results.jres
                /\ item.conv = ExpectedConv(last.op, var)
        IN /\ n >= 2 => /\ last.res.kind = "list"
                        /\ Len(items) = n
                        /\ \A i \in 1..n : IsValueOf(items[i], names[i])
           /\ n = 1 => /\ last.res.kind = "value"
                       /\ Len(items) = 1
                       /\ IsValueOf(items[1], names[1])
           /\ Len(lookups) = n
           /\ \A i \in 1..n : lookups[i].args = <<PyStr(names[i])>> /\ lookups[i].on = results.jres

\* a retrieval of three names, one of them twice, has returned
C1_Witness ==
    /\ last.op = "get"
    /\ Returned
    /\ last.outputs = <<"y", "X", "y">>

IsCtor == last.op \in {"LogisticRegression", "LinearRegression", "SVM"}

\* the hyperparameters other than C are valid for the class constructed
CtorArgsValid ==
    /\ last.op = "LogisticRegression" => last.ctor.penalty = "l2" /\ last.ctor.solver = "newton-cg"
    /\ last.op = "LinearRegression" => last.ctor.solver \in {"newton-cg", "direct-solve"}

\* the caller holds no estimator built by the last call
NoEstimatorYielded == \A i \in 1..Len(calls) : calls[i].ret # 0 => est.estimator # calls[i].ret

\* C2: a constructor given C <= 0 raises and yields no estimator; given C > 0
\* and otherwise valid arguments it returns the estimator and sets the JVM
\* regularization parameter exactly once, to 1/C.
C2_RegularizationConstant ==
    IsCtor =>
        /\ last.ctor.C.n <= 0 => ~Returned /\ NoEstimatorYielded
        /\ (last.ctor.C.n > 0 /\ CtorArgsValid) =>
              /\ Returned
              /\ est.cls = last.op
              /\ Len(CallsOf("setRegParam")) = 1
              /\ CallsOf("setRegParam")[1].args = <<PyFloat(last.ctor.C.d, last.ctor.C.n)>>
              /\ CallsOf("setRegParam")[1].on = est.estimator

\* a logistic regression was built with C = 1/2
C2_Witness ==
    /\ last.op = "LogisticRegression"
    /\ last.ctor.C = PyFloat(1, 2)
    /\ Returned
    /\ CallsOf("setRegParam")[1].args = <<PyFloat(2, 1)>>

\* the script the caller passed to the last execute
ExecutedScript == last.op = "execute" /\ last.arg.type = "Script" /\ script.cls = "Script"

\* C3: execute on a Script whose scriptType is neither "dml" nor "pydml" ends
\* in an error and forwards no input binding, no output name and no execute
\* request, whatever its text, inputs and outputs.
C3_UnsupportedDialectRaises ==
    (ExecutedScript /\ script.scriptType \notin {"dml", "pydml"}) =>
        /\ ~Returned
        /\ CallsOf("input") = <<>>
        /\ CallsOf("out") = <<>>
        /\ CallsOf("execute") = <<>>

\* a script tagged "r" with an input and an output bound was executed
C3_Witness ==
    /\ ExecutedScript
    /\ script.scriptType = "r"
    /\ IsStr(script.scriptString)
    /\ DOMAIN script.input # {}
    /\ script.output # <<>>
    /\ ~Returned

\* C4: LinearRegression raises for every solver but 'newton-cg' and
\* 'direct-solve', LogisticRegression for every solver but 'newton-cg' and for
\* every penalty but 'l2', whatever the other hyperparameters, and the caller
\* gets no estimator.
C4_UnsupportedSolverOrPenaltyRaises ==
    /\ (last.op = "LinearRegression" /\ last.ctor.solver \notin {"newton-cg", "direct-solve"}) =>
          ~Returned /\ NoEstimatorYielded
    /\ (last.op = "LogisticRegression" /\ (last.ctor.solver # "newton-cg" \/ last.ctor.penalty # "l2")) =>
          ~Returned /\ NoEstimatorYielded

\* a logistic regression with valid C and solver and penalty 'l1' was refused
C4_Witness ==
    /\ last.op = "LogisticRegression"
    /\ last.ctor.penalty = "l1"
    /\ last.ctor.solver = "newton-cg"
    /\ last.ctor.C = PyInt(1)
    /\ last.res.msg = "Only l2 penalty is supported"

\* the text of the executed script names a script file: it carries the suffix
\* of one of the two dialects
NamesScriptFile == IsStr(script.scriptString) /\
    (EndsWith(script.scriptString.s, ".dml") \/ EndsWith(script.scriptString.s, ".pydml"))

\* the text of the executed script carries the suffix of the script's own dialect
HasOwnSuffix == IsStr(script.scriptString) /\
    \/ script.scriptType = "dml" /\ EndsWith(script.scriptString.s, ".dml")
    \/ script.scriptType = "pydml" /\ EndsWith(script.scriptString.s, ".pydml")

RaisedMissingPath ==
    /\ last.res.outcome = "ValueError"
    /\ last.res.msg = "path: " \o script.scriptString.s \o " does not exist"
    /\ calls = <<>>

\* C5 as stated: execute on a dml or pydml Script whose text is a script file
\* path that does not exist raises a ValueError naming the path and makes no
\* JVM request.
C5_Original ==
    (ExecutedScript /\ script.scriptType \in {"dml", "pydml"} /\ NamesScriptFile
        /\ script.scriptString.s \notin ExistingPaths) => RaisedMissingPath

\* C5, amended: execute on a Script whose text carries the suffix of the
\* script's own dialect (".dml" for "dml", ".pydml" for "pydml") and names a
\* path that does not exist raises a ValueError naming the path and makes no
\* JVM request.
C5_MissingScriptFileRaises ==
    (ExecutedScript /\ HasOwnSuffix /\ script.scriptString.s \notin ExistingPaths) => RaisedMissingPath

\* a dml script whose text is the missing path b.dml was executed
C5_Witness ==
    /\ ExecutedScript
    /\ script.scriptType = "dml"
    /\ script.scriptString = PyStr("b.dml")
    /\ last.res.outcome = "ValueError"

\* C6: MLContext(sc) raises a ValueError and constructs no JVM MLContext for
\* every sc that is not a SparkContext, and constructs exactly one JVM
\* MLContext for a SparkContext.
C6_ContextTypeChecked ==
    last.op = "MLContext" =>
        IF last.sc.type # "SparkContext"
        THEN last.res.outcome = "ValueError" /\ CallsOf("MLContext") = <<>>
        ELSE Returned /\ Len(CallsOf("MLContext")) = 1

\* C7: dml(s) and pydml(s) raise ValueError for every s that is not a string
\* and for a string return a Script holding s, tagged "dml" resp. "pydml", with
\* no input and no output bound; execute raises ValueError for an argument
\* that is not a Script, without a JVM request.
C7_ArgumentTypesChecked ==
    /\ last.op \in {"dml", "pydml"} =>
          IF last.s.type # "str"
          THEN last.res.outcome = "ValueError"
          ELSE /\ Returned
               /\ script.cls = "Script"
               /\ script.scriptString = last.s
               /\ script.scriptType = last.op
               /\ DOMAIN script.input = {}
               /\ script.output = <<>>
    /\ (last.op = "execute" /\ last.arg.type # "Script") =>
          last.res.outcome = "ValueError" /\ calls = <<>>

\* pydml has built a script from a string
C7_Witness ==
    /\ last.op = "pydml"
    /\ Returned
    /\ script.scriptType = "pydml"
    /\ script.scriptString = PyStr("a.pydml")

HasFitCall(cs) == \E i \in 1..Len(cs) : cs[i].f = "fit"

\* C8: fit(X) without y sends the JVM fit exactly when X is a Spark table
\* whose columns hold the estimator's current featuresCol and labelCol; in any
\* other case it raises 'Incorrect usage', sends no JVM fit and leaves the
\* estimator's model as it was.
C8_TableFitDelegatesOrRejects ==
    [][(last'.op = "fit" /\ last'.y.type = "NoneType") =>
          IF /\ last'.X.type = "sparkdf"
             /\ est.featuresCol \in last'.X.columns
             /\ est.labelCol \in last'.X.columns
          THEN HasFitCall(calls') /\ calls'[1].on = est.estimator
          ELSE /\ last'.res.outcome = "Exception"
               /\ last'.res.msg = "Incorrect usage: Expected dataframe as input with features/label as columns"
               /\ ~HasFitCall(calls')
               /\ est'.model = est.model]_vars

\* a table with the columns f2 and label was fitted after setFeaturesCol('f2')
C8_Witness ==
    /\ last.op = "fit"
    /\ last.y.type = "NoneType"
    /\ last.X.columns = {"f2", "label"}
    /\ est.featuresCol = "f2"
    /\ Returned

\* C9: a fit that succeeds, on the table path and on both paired paths, has
\* sent exactly one JVM fit, holds the object that request returned as the
\* estimator's model, and returns the estimator itself; a predict that follows
\* addresses that model.
C9_FitStoresModelAndReturnsSelf ==
    /\ (last.op = "fit" /\ Returned) =>
          /\ last.res.kind = "self"
          /\ Len(CallsOf("fit")) = 1
          /\ CallsOf("fit")[1].on = est.estimator
          /\ CallsOf("fit")[1].ret # 0
          /\ est.model = CallsOf("fit")[1].ret
    /\ last.op \in {"predict", "transform"} =>
          \A i \in 1..Len(calls) : calls[i].f = "transform" => calls[i].on = est.model /\ est.model # 0

\* a paired fit through an assembled table has succeeded
C9_Witness ==
    /\ last.op = "fit"
    /\ Returned
    /\ last.y.type = "ndarray"
    /\ est.transferUsingDF
    /\ est.model = jvmObjs

C12_BuilderStep ==
    /\ last'.op = "input" /\ last'.res.outcome = "return" =>
          /\ \A n \in Names :
                IF n \in DOMAIN last'.kwargs
                THEN n \in DOMAIN script'.input /\ script'.input[n] = last'.kwargs[n]
                ELSE IF Len(last'.args) = 2 /\ last'.args[1].s = n
                THEN n \in DOMAIN script'.input /\ script'.input[n] = last'.args[2]
                ELSE IF n \in DOMAIN script.input
                THEN n \in DOMAIN script'.input /\ script'.input[n] = script.input[n]
                ELSE n \notin DOMAIN script'.input
          /\ DOMAIN script'.input \subseteq Names
          /\ script'.output = script.output
          /\ script'.scriptString = script.scriptString
          /\ script'.scriptType = script.scriptType
          /\ last'.res.kind = "self"
    /\ last'.op = "out" /\ last'.res.outcome = "return" =>
          /\ script'.output = script.output \o last'.names
          /\ script'.input = script.input
          /\ script'.scriptString = script.scriptString
          /\ script'.scriptType = script.scriptType
          /\ last'.res.kind = "self"

C12_AccumulatingBuilder == [][C12_BuilderStep]_vars

\* an input call rebound by keyword a name it also passed as its positional
\* pair, with another value, and a name was passed to out twice
C12_Witness ==
    /\ last.op = "input" /\ last.res.outcome = "return"
    /\ Len(last.args) = 2 /\ last.args[1].s = "X" /\ "X" \in DOMAIN last.kwargs
    /\ last.kwargs["X"] # last.args[2]
    /\ script.input["X"] = last.kwargs["X"]
    /\ "y" \in DOMAIN script.input /\ "y" \notin DOMAIN last.kwargs
    /\ script.output = <<"y", "y">>

\* C19: Script.input takes positional arguments only as one (name, value)
\* pair.  A call with one or with more than two positional arguments raises
\* ValueError and leaves the Script as it was, whatever keyword bindings it
\* carries; a call with no positional argument returns and changes the input
\* mapping by its keyword bindings alone.
C19_InputStep ==
    last'.op = "input" =>
        /\ Len(last'.args) \notin {0, 2} =>
              /\ last'.res.outcome = "ValueError"
              /\ script' = script
        /\ Len(last'.args) = 0 =>
              /\ last'.res.outcome = "return"
              /\ DOMAIN script'.input = (DOMAIN script.input) \cup (DOMAIN last'.kwargs)
              /\ \A n \in DOMAIN script'.input :
                    script'.input[n] = IF n \in DOMAIN last'.kwargs THEN last'.kwargs[n]
                                       ELSE script.input[n]
              /\ script'.output = script.output

C19_PositionalPairOnly == [][C19_InputStep]_vars

\* a call with three positional arguments and a keyword binding of a name
\* the Script does not bind was refused, and the name is still unbound
C19_Witness ==
    /\ last.op = "input" /\ last.res.outcome = "ValueError"
    /\ Len(last.args) = 3 /\ "y" \in DOMAIN last.kwargs
    /\ script.cls = "Script" /\ "y" \notin DOMAIN script.input
    /\ "X" \in DOMAIN script.input /\ script.output # <<>>

\* the ScriptFactory requests among those the last call sent
FactoryCalls ==
    SelectSeq(calls, LAMBDA c : c.f \in {"dml", "dmlFromFile", "pydml", "pydmlFromFile"})

\* the script strings that end with ".dml", and those that end with ".pydml"
DmlSuffixed == {"a.dml", "b.dml"}
PydmlSuffixed == {"a.pydml", "b.pydml"}

\* C13: execute on a "dml" or "pydml" Script whose text is a string loads the
\* script from file exactly when the text ends with the dialect's own suffix
\* and the path exists; a text with that suffix whose path does not exist is
\* an error with no request sent; every other text is submitted as inline
\* script text in the script's dialect; and an execute that returns has
\* created exactly one remote script object.
C13_ResolutionByDialectAndSuffix ==
    (ExecutedScript /\ script.scriptType \in {"dml", "pydml"} /\ IsStr(script.scriptString)) =>
        LET text == script.scriptString.s
            own == IF script.scriptType = "dml" THEN text \in DmlSuffixed ELSE text \in PydmlSuffixed
            fromFile == IF script.scriptType = "dml" THEN "dmlFromFile" ELSE "pydmlFromFile"
            inline == script.scriptType
        IN /\ (own /\ text \in ExistingPaths) <=> CallsOf(fromFile) # <<>>
           /\ (own /\ text \notin ExistingPaths) => ~Returned /\ calls = <<>>
           /\ ~own <=> CallsOf(inline) # <<>>
           /\ \A i \in 1..Len(FactoryCalls) :
                 /\ FactoryCalls[i].f \in {fromFile, inline}
                 /\ FactoryCalls[i].args = <<script.scriptString>>
           /\ Returned => Len(FactoryCalls) = 1 /\ FactoryCalls[1].ret = results.jres

\* a dml script whose text is the existing path notes.txt, which lacks the
\* dialect's suffix, was submitted as inline text and ran
C13_Witness ==
    /\ ExecutedScript /\ Returned
    /\ script.scriptType = "dml" /\ script.scriptString = PyStr("notes.txt")
    /\ Len(CallsOf("dml")) = 1

\* a pydml script whose text ends with ".dml" was submitted as inline text,
\* and a pydml script was loaded from an existing ".pydml" file
C13_WitnessOtherDialect ==
    /\ ExecutedScript /\ Returned
    /\ script.scriptType = "pydml" /\ script.scriptString = PyStr("a.dml")
    /\ Len(CallsOf("pydml")) = 1

\* C14: a constructor of LogisticRegression, LinearRegression or SVM that
\* raises (for a non-positive C, an unsupported penalty or an unsupported
\* solver) has sent no JVM request: no JVM estimator was constructed and no
\* setter was called.
C14_HyperparametersValidatedFirst ==
    (IsCtor /\ ~Returned) => calls = <<>>

\* C15: fit(X, y) with y given raises, sends no JVM fit and leaves the model
\* as it was, with and without transferUsingDF, when X or y is not of a
\* supported type (with the message 'Unsupported input type'), when y does not
\* have exactly one column, and when X and y differ in their number of rows.
C15_FitStep ==
    (last'.op = "fit" /\ last'.y.type # "NoneType") =>
        LET X == last'.X
            y == last'.y
            unsupported == X.type \notin {"ndarray", "pandas", "spmatrix"}
                           \/ y.type \notin {"ndarray", "pandas", "spmatrix"}
        IN /\ unsupported =>
                 last'.res.outcome = "Exception" /\ last'.res.msg = "Unsupported input type"
           /\ (unsupported \/ y.cols # 1 \/ X.rows # y.rows) =>
                 /\ last'.res.outcome # "return"
                 /\ ~HasFitCall(calls')
                 /\ est'.model = est.model

C15_FitValidatesBeforeDelegating == [][C15_FitStep]_vars

\* C18: the table context MLResults shares is created once and never
\* replaced.  While no MLResults was constructed it is unset; the first
\* MLResults constructed sets it to the context built from its own session
\* context, with one SQLContext request; from then on no call changes it or
\* builds another, and every table getDataFrame returns is bound to it, also
\* on an MLResults of another session context.
C18_SharedContextStep ==
    /\ sqlContext # "unset" =>
          /\ sqlContext' = sqlContext
          /\ \A i \in 1..Len(calls') : calls'[i].f # "SQLContext"
    /\ sqlContext = "unset" =>
          IF last'.op = "execute" /\ last'.res.outcome = "return"
          THEN /\ sqlContext' = results'.sc
               /\ Len(SelectSeq(calls', LAMBDA c : c.f = "SQLContext")) = 1
          ELSE sqlContext' = "unset"
    /\ (last'.op = "getDataFrame" /\ last'.res.outcome = "return") =>
          \A i \in 1..Len(last'.res.items) : last'.res.items[i].ctx = sqlContext

C18_TableContextCreatedOnce == [][C18_SharedContextStep]_vars

\* getDataFrame on an MLResults of the session context sc2 returned two
\* tables bound to the table context of sc1, the context of the first
\* MLResults
C18_Witness ==
    /\ last.op = "getDataFrame" /\ Returned
    /\ results.cls = "MLResults" /\ results.sc = "sc2"
    /\ sqlContext = "sc1"
    /\ Len(last.res.items) = 2
    /\ \A i \in 1..2 : last.res.items[i].ctx = "sc1"

\* the JVM value a bound input value is forwarded as
ForwardedAs(v) ==
    IF v = PyMatrix(1) THEN V("JavaObject", "Matrix", 1, 1) ELSE V("java:int", "", v.n, 1)

\* the positions in calls of the requests named f
PositionsOf(f) == {i \in 1..Len(calls) : calls[i].f = f}

\* the (name, value) pairs and the names the last call forwarded
InputsSent == {CallsOf("input")[i].args : i \in 1..Len(CallsOf("input"))}
OutsSent == [i \in 1..Len(CallsOf("out")) |-> CallsOf("out")[i].args]

\* the remote script object the last call created
ScriptSent == FactoryCalls[1].ret

\* C16, the requests of one execute: an execute that returns has sent, to the
\* one script object it created, one input request per bound name carrying
\* that name's value, then one out request per entry of the output list in
\* list order, then the single execute request naming that script object.
C16_ForwardedOnce ==
    (ExecutedScript /\ Returned) =>
        /\ Len(FactoryCalls) = 1 /\ calls[1] = FactoryCalls[1]
        /\ Len(CallsOf("input")) = Cardinality(DOMAIN script.input)
        /\ InputsSent = {<<PyStr(n), ForwardedAs(script.input[n])>> : n \in DOMAIN script.input}
        /\ OutsSent = [i \in 1..Len(script.output) |-> <<PyStr(script.output[i])>>]
        /\ \A i \in PositionsOf("input") \cup PositionsOf("out") : calls[i].on = ScriptSent
        /\ \A i \in PositionsOf("input"), j \in PositionsOf("out") : i < j
        /\ Cardinality(PositionsOf("execute")) = 1
        /\ \A i \in PositionsOf("input") \cup PositionsOf("out"), k \in PositionsOf("execute") :
              i < k /\ calls[k].args[2] = V("JavaObject", "Script", ScriptSent, 1)

\* C16: MLContext.execute forwards a bound Script faithfully (C16_ForwardedOnce
\* holds after the call) and leaves the Script's text, dialect, input mapping
\* and output list as they were, so that an execute that follows a returned
\* execute of the same Script forwards the same bindings to another remote
\* script object.
C16_ExecuteStep ==
    last'.op = "execute" =>
        /\ C16_ForwardedOnce'
        /\ script' = script
        /\ (last.op = "execute" /\ Returned /\ last.arg.type = "Script"
               /\ last'.arg.type = "Script" /\ last'.res.outcome = "return") =>
              /\ InputsSent' = InputsSent
              /\ OutsSent' = OutsSent
              /\ ScriptSent' # ScriptSent

C16_ExecuteForwardsFaithfully == [][C16_ExecuteStep]_vars

\* a Script with two inputs and the output list <<"y", "y">> was executed a
\* second time, and that execute returned
C16_Witness ==
    /\ ExecutedScript /\ Returned
    /\ DOMAIN script.input = {"X", "y"}
    /\ script.output = <<"y", "y">>
    /\ Len(CallsOf("input")) = 2 /\ Len(CallsOf("out")) = 2
    /\ ScriptSent = 2
    /\ results.jres = 2

\* the JVM transform requests among those the last call sent
TransformCalls == CallsOf("transform")

\* C17: an estimator comes out of its constructor without a model; only a fit
\* that returns stores one, the object its JVM fit returned, and a fit that
\* raises, like every other call, leaves the stored model in place.  Without
\* a model predict, transform and score raise and send no JVM transform; with
\* one, every JVM transform they send goes to the stored model, the one of
\* the most recent fit that returned, and what predict and transform return
\* comes from it.
C17_LifecycleStep ==
    /\ (last'.op \in {"LogisticRegression", "LinearRegression", "SVM"}
           /\ last'.res.outcome = "return") => est'.model = 0
    /\ last'.op = "fit" =>
          IF last'.res.outcome = "return"
          THEN /\ est'.model \notin {0, est.model}
               /\ \E i \in 1..Len(calls') : calls'[i].f = "fit" /\ calls'[i].ret = est'.model
          ELSE est'.model = est.model
    /\ last'.op \in {"predict", "transform", "score"} =>
          /\ est'.model = est.model
          /\ est.model = 0 => last'.res.outcome # "return" /\ TransformCalls' = <<>>
          /\ Len(TransformCalls') <= 1
          /\ \A i \in 1..Len(TransformCalls') : TransformCalls'[i].on = est.model
          /\ (last'.op # "score" /\ last'.res.outcome = "return") =>
                /\ Len(TransformCalls') = 1
                /\ \A i \in 1..Len(last'.res.items) : last'.res.items[i].model = est.model

C17_WitnessUnfitted ==
    /\ last.op = "score" /\ est.cls # "none" /\ est.model = 0
    /\ last.res.outcome = "AttributeError"
    /\ TransformCalls = <<>>

\* the request that carries the work of a call: execute for
\* MLContext.execute, fit for fit, transform for predict
RemoteRequestOf(op) == IF op = "predict" THEN "transform" ELSE op

\* C11: the layer never retries and never wraps.  A call of MLContext.execute,
\* fit or predict sends its request (execute, fit, transform) at most once;
\* when the engine rejects that request the call ends in the engine's failure
\* itself, the request is the last one the call sent, and neither the current
\* MLResults nor the estimator's model is replaced.
C11_RemoteStep ==
    last'.op \in {"execute", "fit", "predict"} =>
        LET f == RemoteRequestOf(last'.op)
            sent == SelectSeq(calls', LAMBDA c : c.f = f)
        IN /\ Len(sent) <= 1
           /\ (Len(sent) = 1 /\ ~last'.remoteOk) =>
                 /\ last'.res.outcome = "Py4JJavaError" /\ last'.res.msg = f
                 /\ calls'[Len(calls')].f = f
                 /\ results' = results
                 /\ sqlContext' = sqlContext
                 /\ est' = est
           /\ last'.res.outcome = "Py4JJavaError" => Len(sent) = 1 /\ ~last'.remoteOk

C11_NoRetryNoWrap == [][C11_RemoteStep]_vars

\* the engine rejected the fit of an estimator that holds the model of an
\* earlier fit
C11_Witness ==
    /\ last.op = "fit" /\ ~last.remoteOk
    /\ last.res.outcome = "Py4JJavaError"
    /\ Len(CallsOf("fit")) = 1 /\ calls[Len(calls)].f = "fit"
    /\ est.model # 0

\* the engine rejected the execute of a bound script while an MLResults of an
\* earlier execute exists
C11_WitnessExecute ==
    /\ last.op = "execute" /\ ~last.remoteOk
    /\ last.res.outcome = "Py4JJavaError"
    /\ Len(CallsOf("input")) = 1 /\ Len(CallsOf("execute")) = 1
    /\ calls[Len(calls)].f = "execute"
    /\ results.cls = "MLResults" /\ results.jres < jvmObjs
====
